---- MODULE Spec2Model ----
(***************************************************************************)
(* TalkToDocs: the document index (DocumentProcessor), its persistence,    *)
(* and the swap/restore of the index around a web browsing sub-session     *)
(* (DocQAApp.process_web_query), as a state machine.                       *)
(*                                                                         *)
(* Text is a sequence of one-character strings.  A Python list object is a *)
(* record [id, items]: id is the object's identity (two lists with equal   *)
(* items and different ids are different objects), items its contents.     *)
(* A FAISS index object is a record [id, vecs]; id 0 is Python's None.     *)
(***************************************************************************)
EXTENDS Integers, Sequences, FiniteSets, TLC

\* ------------------------------------------------------------------ bounds
\* DocumentProcessor(chunk_size, chunk_overlap): config.CHUNK_SIZE = 500 and
\* config.CHUNK_OVERLAP = 50 scaled down to the size of the model's texts.
ChunkSize == 4
MaxChunkSize == 5
MaxText == 6
MaxList == 3
ChunkOverlap == 1
\* iterations of chunk_text's while loop that the model follows
MaxIter == 12
\* longest list of documents handed to load_documents
MaxFiles == 2

\* ------------------------------------------------------- Python primitives
NL == "\n"

Max2(a, b) == IF a >= b THEN a ELSE b
Min2(a, b) == IF a <= b THEN a ELSE b

SetMax(S) == CHOOSE x \in S : \A y \in S : y <= x

\* The characters c with c.isspace() that a string of a module can hold:
\* tab, line feed, vertical tab, form feed, carriage return, the separators
\* U+001C to U+001F, space, next line (U+0085), no-break space (U+00A0) and
\* ogham space mark (U+1680).  (The other whitespace of Unicode, U+2000 to
\* U+200A, U+2028, U+2029, U+202F, U+205F and U+3000, is not accepted
\* inside a string.)  The module is UTF-8 text; read in another encoding, a
\* character beyond ASCII arrives as several characters, which is no
\* whitespace character: the set keeps single characters only.
Whitespace ==
    {c \in {"\t", NL, "", "\f", "\r", "", "", "", "", " ",
            "", " ", " "} : Len(c) = 1}

\* str.strip() removes leading and trailing whitespace
IsSpace(c) == c \in Whitespace

RECURSIVE LStrip(_)
LStrip(s) == IF s = <<>> THEN s
             ELSE IF IsSpace(Head(s)) THEN LStrip(Tail(s)) ELSE s

RECURSIVE RStrip(_)
RStrip(s) == IF s = <<>> THEN s
             ELSE IF IsSpace(s[Len(s)]) THEN RStrip(SubSeq(s, 1, Len(s) - 1)) ELSE s

Strip(s) == RStrip(LStrip(s))

\* str.rfind(c): zero-based offset of the last occurrence of c, or -1
RFind(s, c) == LET I == {i \in 1..Len(s) : s[i] = c}
               IN IF I = {} THEN -1 ELSE SetMax(I) - 1

\* a slice bound as Python normalises it for a sequence of length n
SliceBound(i, n) == IF i < 0 THEN Max2(i + n, 0) ELSE Min2(i, n)

\* s[a:b]
PySlice(s, a, b) == LET lo == SliceBound(a, Len(s))
                        hi == SliceBound(b, Len(s))
                    IN IF lo < hi THEN SubSeq(s, lo + 1, hi) ELSE <<>>

\* list[i]: valid for -n <= i < n, IndexError otherwise
PyIndexOk(i, n) == (0 - n) <= i /\ i < n
PyIndex(s, i) == IF i < 0 THEN s[Len(s) + i + 1] ELSE s[i + 1]

\* [c for c in chunks if c]
RECURSIVE NonEmpty(_)
NonEmpty(ss) == IF ss = <<>> THEN <<>>
                ELSE IF Head(ss) = <<>> THEN NonEmpty(Tail(ss))
                     ELSE <<Head(ss)>> \o NonEmpty(Tail(ss))

\* ------------------------------------------------------------- chunk_text
\* break_point = max(chunk.rfind('.'), chunk.rfind('\n'))
BreakPoint(chunk0) == Max2(RFind(chunk0, "."), RFind(chunk0, NL))

\* Truncates cutting at every sentence break, wherever it lies in the window
Truncates_AnyBreak(text, cs, end0, bp) == end0 < Len(text) /\ bp >= 0

\* if end < len(text): ... if break_point > self.chunk_size * 0.5:
Truncates(text, cs, end0, bp) == end0 < Len(text) /\ 2 * bp > cs

\* the window cut at its break point, or left whole
CutWindow(chunk0, start, end0, bp, trunc) ==
    [start |-> start,
     end   |-> IF trunc THEN start + bp + 1 ELSE end0,
     chunk |-> Strip(IF trunc THEN PySlice(chunk0, 0, bp + 1) ELSE chunk0)]

\* One iteration of the while loop from `start`: where the window starts
\* and ends (end is the value `end` has when the next start is computed)
\* and the chunk appended, chunk.strip().
Window(text, cs, start) ==
    CutWindow(PySlice(text, start, start + cs), start, start + cs,
              BreakPoint(PySlice(text, start, start + cs)),
              Truncates(text, cs, start + cs,
                        BreakPoint(PySlice(text, start, start + cs))))

\* start = end - self.chunk_overlap
NextStart(end, ov) == end - ov

\* One evaluation of the while loop of chunk_text from `start`, the windows
\* of the iterations made so far in acc.  done = FALSE: the loop is still
\* running after MaxIter iterations.  chunks is the list `chunks` of the
\* code, windows the same list with the offsets of every window.
RECURSIVE ChunkLoop(_, _, _, _, _, _)
ChunkLoop(text, cs, ov, start, acc, fuel) ==
    IF ~(start < Len(text)) \/ fuel = 0
    THEN [done |-> ~(start < Len(text)),
          chunks |-> [i \in 1..Len(acc) |-> acc[i].chunk],
          windows |-> acc]
    ELSE ChunkLoop(text, cs, ov, NextStart(Window(text, cs, start).end, ov),
                   Append(acc, Window(text, cs, start)), fuel - 1)

chunk_text(text, cs, ov) == NonEmpty(ChunkLoop(text, cs, ov, 0, <<>>, MaxIter).chunks)

\* ---------------------------------------------------- embedding provider
\* SentenceTransformer.encode is an external collaborator.  The model gives
\* every string a two-dimensional integer vector (its length, its number of
\* "a"), the same vector for the same string on every call.
RECURSIVE CountA(_)
CountA(s) == IF s = <<>> THEN 0
             ELSE (IF Head(s) = "a" THEN 1 ELSE 0) + CountA(Tail(s))

EmbedOne(s) == <<Len(s), CountA(s)>>

\* What one encode(strings) call does: "ok" returns one vector per string,
\* in order; "raise" raises; "short" is a provider that breaks its contract
\* and returns one vector too few (no vector at all for a single string).
ProviderOutcomes == {"ok", "raise"}
FaultyProviderOutcomes == {"ok", "raise", "short"}

Encode(strings, outcome) ==
    LET full == [i \in 1..Len(strings) |-> EmbedOne(strings[i])]
    IN IF outcome = "short" THEN SubSeq(full, 1, Len(full) - 1) ELSE full

\* ------------------------------------------------------- faiss.IndexFlatL2
None == [id |-> 0, vecs |-> <<>>]
IsNone(ix) == ix.id = 0
ntotal(ix) == Len(ix.vecs)

\* squared L2 distance, as IndexFlatL2 reports it
Dist(u, v) == (u[1] - v[1]) * (u[1] - v[1]) + (u[2] - v[2]) * (u[2] - v[2])

\* the distance reported with a padding label -1 (C's FLT_MAX, 3.4e38):
\* above every distance between two vectors of the model
FLT_MAX == 2^30

Closer(vecs, q, i, j) ==
    \/ Dist(vecs[i], q) < Dist(vecs[j], q)
    \/ Dist(vecs[i], q) = Dist(vecs[j], q) /\ i < j

\* positions of S in ascending order of distance to q, ties by position
RECURSIVE Ranked(_, _, _)
Ranked(vecs, q, S) ==
    IF S = {} THEN <<>>
    ELSE LET b == CHOOSE i \in S : \A j \in S \ {i} : Closer(vecs, q, i, j)
         IN <<b>> \o Ranked(vecs, q, S \ {b})

\* index.search(q, k): exactly k (label, distance) pairs, the nearest first;
\* when the index holds fewer than k vectors the rest is padded with label -1
IndexSearch(vecs, q, k) ==
    LET r == Ranked(vecs, q, 1..Len(vecs))
    IN [j \in 1..k |->
          IF j <= Len(vecs) THEN [idx |-> r[j] - 1, dist |-> Dist(vecs[r[j]], q)]
          ELSE [idx |-> -1, dist |-> FLT_MAX]]

\* ------------------------------------------------ DocumentProcessor.search
\* the guard of the join loop: a label is joined when idx < len(self.chunks)
Joined(idx, nchunks) == idx < nchunks

\* The for loop over zip(distances[0], indices[0]).  raised = TRUE: the
\* subscript self.chunks[idx] or self.metadata[idx] raised IndexError.
\* Field h of a result is the label the index returned for it (the code's
\* tuple holds the chunk, the distance and the metadata only).
\* AddResult putting the new tuple in front: the list is built backwards
AddResult_Front(acc, res) == <<res>> \o acc

\* results.append(...)
AddResult(acc, res) == Append(acc, res)

RECURSIVE JoinLoop(_, _, _, _)
JoinLoop(hits, cks, mds, acc) ==
    IF hits = <<>> THEN [raised |-> FALSE, results |-> acc]
    ELSE LET hit == Head(hits)
         IN IF ~Joined(hit.idx, Len(cks)) THEN JoinLoop(Tail(hits), cks, mds, acc)
            ELSE IF ~PyIndexOk(hit.idx, Len(cks)) \/ ~PyIndexOk(hit.idx, Len(mds))
                 THEN [raised |-> TRUE, results |-> acc]
                 ELSE JoinLoop(Tail(hits), cks, mds,
                               AddResult(acc, [chunk |-> PyIndex(cks, hit.idx),
                                               dist  |-> hit.dist,
                                               meta  |-> PyIndex(mds, hit.idx),
                                               h     |-> hit.idx]))

\* SearchGuard without its second test: an index without vectors is searched
SearchGuard_NoneOnly(dp) == IsNone(dp.index)

\* if self.index is None or self.index.ntotal == 0: return []
SearchGuard(dp) == IsNone(dp.index) \/ ntotal(dp.index) = 0

\* search(query, top_k) on the processor dp = [chunks, metadata, index]
Search(dp, query, top_k) ==
    IF SearchGuard(dp)
    THEN [raised |-> FALSE, results |-> <<>>]
    ELSE JoinLoop(IndexSearch(dp.index.vecs, EmbedOne(query), top_k),
                  dp.chunks.items, dp.metadata.items, <<>>)

\* search(query, top_k) with what the encode call does when it is reached:
\* encoded tells whether the provider was called, raised how the call ended
\* ("no": it returned results)
SearchCall(dp, query, top_k, outcome) ==
    IF SearchGuard(dp) THEN [raised |-> "no", encoded |-> FALSE, results |-> <<>>]
    ELSE IF outcome = "raise" THEN [raised |-> "encode", encoded |-> TRUE, results |-> <<>>]
    ELSE [raised |-> IF Search(dp, query, top_k).raised THEN "IndexError" ELSE "no",
          encoded |-> TRUE,
          results |-> Search(dp, query, top_k).results]

\* top_k of the two call sites (search(query, top_k=3))
TopK == 3

\* ------------------------------------------------------------ file system
\* The documents of the model, in the order of Python's string comparison.
\* A.txt: three chunks.  B.txt: one chunk.  W.txt: whitespace only (text
\* loads, chunking gives nothing).  Z.txt: an empty file.  E.bin: a path
\* with a suffix load_document does not support.
Paths == <<"A.txt", "B.txt", "E.bin", "W.txt", "Z.txt">>

FileText(path) ==
    CASE path = "A.txt" -> <<"a", "b", ".", " ", "c", "d", ".", "e">>
      [] path = "B.txt" -> <<"a", "a">>
      [] path = "E.bin" -> <<"a", "b">>
      [] path = "W.txt" -> <<" ", NL>>
      [] path = "Z.txt" -> <<>>

Suffix(path) == IF path = "E.bin" THEN ".bin" ELSE ".txt"

\* load_document: the .txt/.md branches return the file's text, any other
\* suffix returns "" (the .pdf branch, which reads through external PDF
\* libraries, is not among the model's files)
load_document(path) == IF Suffix(path) \in {".txt", ".md"} THEN FileText(path) ELSE <<>>

\* main(): selected_docs is one document of the folder, all the documents of
\* the folder (sorted, without duplicates), or one custom path.  The folder
\* lists files with a supported suffix only.
PathRank(path) == CHOOSE i \in 1..Len(Paths) : Paths[i] = path
Listable == {"A.txt", "B.txt", "W.txt", "Z.txt"}

IsSortedDistinct(fs) == \A i \in 1..(Len(fs) - 1) : PathRank(fs[i]) < PathRank(fs[i + 1])

FileLists ==
    {<<p>> : p \in {Paths[i] : i \in 1..Len(Paths)}} \cup
    {fs \in UNION {[1..n -> Listable] : n \in 2..MaxFiles} : IsSortedDistinct(fs)}

\* ------------------------------------------------------------ fingerprint
\* sorted(file_paths)
RECURSIVE InsertSorted(_, _)
InsertSorted(p, fs) ==
    IF fs = <<>> THEN <<p>>
    ELSE IF PathRank(p) <= PathRank(Head(fs)) THEN <<p>> \o fs
         ELSE <<Head(fs)>> \o InsertSorted(p, Tail(fs))

\* Sorted leaving the list in the order given
Sorted_AsGiven(fs) == fs

RECURSIVE Sorted(_)
Sorted(fs) == IF fs = <<>> THEN <<>> ELSE InsertSorted(Head(fs), Sorted(Tail(fs)))

\* "|".join(paths)
RECURSIVE Join(_)
Join(fs) == IF fs = <<>> THEN ""
            ELSE IF Len(fs) = 1 THEN Head(fs)
                 ELSE Head(fs) \o "|" \o Join(Tail(fs))

\* hashlib.md5(...).hexdigest(): equal digests exactly for equal inputs
Md5(str) == <<"md5", str>>

get_file_hash(file_paths) == Md5(Join(Sorted(file_paths)))

\* if isinstance(file_paths, str): file_paths = [file_paths]
\* (an argument is [is_str |-> TRUE, val |-> a path] or
\* [is_str |-> FALSE, val |-> a list of paths])
AsList(arg) == IF arg.is_str THEN <<arg.val>> ELSE arg.val

\* --------------------------------------------------------- object identity
\* the identity given to a newly created object: one no live object has
FreshId(used) == CHOOSE n \in 1..(Cardinality(used) + 1) :
                     n \notin used /\ \A m \in 1..(n - 1) : m \in used

DpIds(dp) == {dp.chunks.id, dp.metadata.id, dp.index.id}

NewList(items, used) == [id |-> FreshId(used), items |-> items]
NewIndex(vecs, used) == [id |-> FreshId(used), vecs |-> vecs]

\* DocumentProcessor.__init__: index None, chunks [] and metadata []
InitDp == [chunks |-> [id |-> 1, items |-> <<>>],
           metadata |-> [id |-> 2, items |-> <<>>],
           index |-> None]

\* ---------------------------------------------------------- index_document
\* DocMetadata numbering the chunks from 1
DocMetadata_OneBased(file_path, n) == [i \in 1..n |-> [source |-> file_path, chunk_id |-> i]]

\* [{"source": file_path, "chunk_id": i} for i in range(len(self.chunks))]
DocMetadata(file_path, n) == [i \in 1..n |-> [source |-> file_path, chunk_id |-> i - 1]]

\* the three assignments to the processor's fields, each of a new object
SetChunks(dp, items, live) == [dp EXCEPT !.chunks = NewList(items, live \cup DpIds(dp))]
SetMetadata(dp, items, live) == [dp EXCEPT !.metadata = NewList(items, live \cup DpIds(dp))]
SetIndex(dp, vecs, live) == [dp EXCEPT !.index = NewIndex(vecs, live \cup DpIds(dp))]

\* index_document from "Generating embeddings": outcome is what the encode
\* call does
BuildIndex(dp, outcome, live) ==
    IF outcome = "raise" THEN [dp |-> dp, raised |-> TRUE, stage |-> "embed"]
    ELSE [dp |-> SetIndex(dp, Encode(dp.chunks.items, outcome), live),
          raised |-> FALSE, stage |-> "done"]

\* index_document from "if not self.chunks"
IndexChunks(dp, file_path, outcome, live) ==
    IF dp.chunks.items = <<>> THEN [dp |-> dp, raised |-> FALSE, stage |-> "chunk"]
    ELSE BuildIndex(SetMetadata(dp, DocMetadata(file_path, Len(dp.chunks.items)), live),
                    outcome, live)

\* index_document from "if not text"
IndexText(dp, file_path, text, outcome, live, cs, ov) ==
    IF text = <<>> THEN [dp |-> dp, raised |-> FALSE, stage |-> "load"]
    ELSE IndexChunks(SetChunks(dp, chunk_text(text, cs, ov), live), file_path, outcome, live)

\* index_document(file_path) on processor dp; outcome is what the encode call
\* does if it is reached; live are the identities of the other live objects.
\* Result: the processor afterwards, whether the call raised, and how far it
\* got ("load": document not loaded, "chunk": no chunk, "embed": encode
\* raised, "done": an index was built).
index_document(dp, file_path, outcome, live, cs, ov) ==
    IndexText(dp, file_path, load_document(file_path), outcome, live, cs, ov)

\* the for loop of load_documents: index_document on every file in turn,
\* outs[i] the encode outcome of the i-th call; stops at the first call that
\* raises.  calls records every call made: file, processor before and after,
\* stage reached.
CallRecord(dp, file_path, outcome, r) ==
    [file |-> file_path,
     outcome |-> IF r.stage \in {"embed", "done"} THEN outcome ELSE "unused",
     pre |-> dp, post |-> r.dp, stage |-> r.stage]

RECURSIVE IndexAll(_, _, _, _, _, _, _)

IndexNext(r, dp, files, outs, live, cs, ov, calls) ==
    IF r.raised
    THEN [dp |-> r.dp, raised |-> TRUE,
          calls |-> Append(calls, CallRecord(dp, Head(files), Head(outs), r))]
    ELSE IndexAll(r.dp, Tail(files), Tail(outs), live, cs, ov,
                  Append(calls, CallRecord(dp, Head(files), Head(outs), r)))

IndexAll(dp, files, outs, live, cs, ov, calls) ==
    IF files = <<>> THEN [dp |-> dp, raised |-> FALSE, calls |-> calls]
    ELSE IndexNext(index_document(dp, Head(files), Head(outs), live, cs, ov),
                   dp, files, outs, live, cs, ov, calls)

\* -------------------------------------------------------------- the disk
FAISS_INDEX_PATH == "document_index.faiss"

\* str.replace(old, new): every occurrence of old, from the left
RECURSIVE Replace(_, _, _)
Replace(s, old, new) ==
    IF Len(s) < Len(old) THEN s
    ELSE IF SubSeq(s, 1, Len(old)) = old
         THEN new \o Replace(SubSeq(s, Len(old) + 1, Len(s)), old, new)
         ELSE SubSeq(s, 1, 1) \o Replace(SubSeq(s, 2, Len(s)), old, new)

\* metadata_path = index_path.replace('.faiss', '_metadata.pkl')
metadata_path(index_path) == Replace(index_path, ".faiss", "_metadata.pkl")

\* the companion file is the index file itself: index_path holds no '.faiss'
SameFile(index_path) == metadata_path(index_path) = index_path

\* The disk shows the file at index_path as faiss.read_index meets it
\* (faiss), the file at metadata_path(index_path) as open() and pickle.load
\* meet it (pkl), and the file at INDEX_METADATA_PATH (sidecar).  The program
\* only ever passes FAISS_INDEX_PATH as index_path.
\* A file that exists may be cut short: readable / parses is FALSE for a file
\* that was opened for writing and whose content was not written in full.
NoFaiss == [exists |-> FALSE, readable |-> FALSE, vecs |-> <<>>]
NoPkl == [exists |-> FALSE, readable |-> FALSE, chunks |-> <<>>, metadata |-> <<>>]
NoSidecar == [exists |-> FALSE, parses |-> FALSE, files |-> <<>>, file_hash |-> Md5("")]
EmptyDisk == [faiss |-> NoFaiss, pkl |-> NoPkl, sidecar |-> NoSidecar]

\* a file that exists and that faiss.read_index cannot read: an index file
\* not written in full, or a file that holds a pickle
NotAnIndex == [exists |-> TRUE, readable |-> FALSE, vecs |-> <<>>]

\* a file that exists and that pickle.load cannot read: a companion file
\* not written in full, or a file that holds a faiss index
NotAPickle == [exists |-> TRUE, readable |-> FALSE, chunks |-> <<>>, metadata |-> <<>>]

\* faiss.write_index(self.index, index_path)
write_index(d, ix, index_path) ==
    [d EXCEPT !.faiss = [exists |-> TRUE, readable |-> TRUE, vecs |-> ix.vecs],
              !.pkl = IF SameFile(index_path) THEN NotAPickle ELSE @]

\* faiss.write_index has opened index_path for writing: the index file is
\* created or truncated, and not yet complete
write_index_open(d, index_path) ==
    [d EXCEPT !.faiss = NotAnIndex,
              !.pkl = IF SameFile(index_path) THEN NotAPickle ELSE @]

\* pickle.dump({'chunks': self.chunks, 'metadata': self.metadata}, f), f
\* the file at metadata_path
pickle_dump(d, dp, index_path) ==
    [d EXCEPT !.pkl = [exists |-> TRUE, readable |-> TRUE,
                       chunks |-> dp.chunks.items,
                       metadata |-> dp.metadata.items],
              !.faiss = IF SameFile(index_path) THEN NotAnIndex ELSE @]

\* open(metadata_path, 'wb'): the companion file is created or truncated
pickle_open(d, index_path) ==
    [d EXCEPT !.pkl = NotAPickle,
              !.faiss = IF SameFile(index_path) THEN NotAnIndex ELSE @]

\* save_index(index_path); stop = "in_faiss": the process is killed while
\* faiss.write_index writes the index file; stop = "after_faiss": it is
\* killed between the two writes; stop = "in_pkl": it is killed after
\* open() of the companion file and before pickle.dump has written it
save_index(d, dp, index_path, stop) ==
    IF IsNone(dp.index) THEN d
    ELSE IF stop = "in_faiss" THEN write_index_open(d, index_path)
    ELSE IF stop = "after_faiss" THEN write_index(d, dp.index, index_path)
    ELSE IF stop = "in_pkl"
    THEN pickle_open(write_index(d, dp.index, index_path), index_path)
    ELSE pickle_dump(write_index(d, dp.index, index_path), dp, index_path)

\* open(INDEX_METADATA_PATH, 'w'): the sidecar is created or truncated
sidecar_open(d) ==
    [d EXCEPT !.sidecar = [exists |-> TRUE, parses |-> FALSE, files |-> <<>>,
                           file_hash |-> Md5("")]]

\* save_index_metadata(file_paths)
save_index_metadata(d, file_paths) ==
    [d EXCEPT !.sidecar = [exists |-> TRUE, parses |-> TRUE, files |-> file_paths,
                           file_hash |-> get_file_hash(file_paths)]]

\* load_index_metadata(): None when the sidecar is absent or json.load
\* raises, the stored dictionary otherwise
load_index_metadata(d) ==
    IF ~d.sidecar.exists \/ ~d.sidecar.parses
    THEN [none |-> TRUE, file_hash |-> Md5("")]
    ELSE [none |-> FALSE, file_hash |-> d.sidecar.file_hash]

\* needs_reindex with the comparison left out: an existing sidecar is
\* taken to describe the documents asked for
needs_reindex_AnySidecar(d, file_paths) == load_index_metadata(d).none

\* needs_reindex(file_paths)
needs_reindex(d, file_paths) ==
    IF load_index_metadata(d).none THEN TRUE
    ELSE load_index_metadata(d).file_hash # get_file_hash(file_paths)

\* load_index from "metadata_path = ...": open() of the companion file
\* raises when it is absent, pickle.load raises when it is cut short
LoadPickle(d, dp, live) ==
    IF ~d.pkl.exists \/ ~d.pkl.readable THEN [dp |-> dp, ret |-> "raised"]
    ELSE [dp |-> SetMetadata(SetChunks(dp, d.pkl.chunks, live), d.pkl.metadata, live),
          ret |-> "true"]

\* load_index(index_path), d showing the files at index_path and at
\* metadata_path(index_path): ret "false" when the index file is absent,
\* "raised" when faiss.read_index raises on a file that is no complete index
\* (nothing is assigned then) or when open() of the companion file or
\* pickle.load raises (the index is already replaced then), "true"
\* otherwise
load_index(d, dp, live) ==
    IF ~d.faiss.exists THEN [dp |-> dp, ret |-> "false"]
    ELSE IF ~d.faiss.readable THEN [dp |-> dp, ret |-> "raised"]
    ELSE LoadPickle(d, SetIndex(dp, d.faiss.vecs, live), live)

\* ---------------------------------------------------------- load_documents
StopPoints == {"none", "in_faiss", "after_faiss", "in_pkl", "after_pkl", "in_sidecar"}

\* load_documents from "Check if indexing was successful", r the outcome of
\* the indexing loop.  stop names the point at which the process is killed
\* while saving ("none": it is not).
CheckAndSave(d, r, file_paths, stop) ==
    IF r.raised
    THEN [dp |-> r.dp, disk |-> d, ret |-> "raised", path |-> "ingest", calls |-> r.calls]
    ELSE IF IsNone(r.dp.index) \/ ntotal(r.dp.index) = 0
    THEN [dp |-> r.dp, disk |-> d, ret |-> "false", path |-> "ingest", calls |-> r.calls]
    ELSE IF stop = "in_sidecar"
    THEN [dp |-> r.dp, disk |-> sidecar_open(save_index(d, r.dp, FAISS_INDEX_PATH, stop)),
          ret |-> "killed", path |-> "ingest", calls |-> r.calls]
    ELSE IF stop # "none"
    THEN [dp |-> r.dp, disk |-> save_index(d, r.dp, FAISS_INDEX_PATH, stop), ret |-> "killed",
          path |-> "ingest", calls |-> r.calls]
    ELSE [dp |-> r.dp,
          disk |-> save_index_metadata(save_index(d, r.dp, FAISS_INDEX_PATH, stop),
                                       file_paths),
          ret |-> "true", path |-> "ingest", calls |-> r.calls]

\* load_documents from "Index all documents"
Ingest(d, dp, file_paths, outs, stop, cs, ov) ==
    CheckAndSave(d, IndexAll(dp, file_paths, outs, {}, cs, ov, <<>>), file_paths, stop)

\* the reuse check of load_documents
CanReuse(d, file_paths) == d.faiss.exists /\ ~needs_reindex(d, file_paths)

\* load_documents after load_index has returned or raised with l
Reuse(l, d) == [dp |-> l.dp, disk |-> d, ret |-> l.ret, path |-> "reuse", calls |-> <<>>]

load_documents(d, dp, file_paths, outs, stop, cs, ov) ==
    IF CanReuse(d, file_paths) /\ load_index(d, dp, {}).ret # "false"
    THEN Reuse(load_index(d, dp, {}), d)
    ELSE Ingest(d, dp, file_paths, outs, stop, cs, ov)

\* ------------------------------------------------------------- user input
\* What the user types (or says), with the Python predicates the program
\* applies to it tabulated.  "h://p" is a URL whose page can be fetched,
\* "h://f" a URL whose fetch or text extraction fails.
MainInputs == {"what", "h://p", "h://f", "web:h://p", "browse:what", "search:what"}
BrowseInputs == {"back", "Exit", "", "what", "aha", "h://p", "web:h://p"}

\* str.lower()
Lower(str) == IF str = "Exit" THEN "exit" ELSE str

\* WebBrowser.is_valid_url: urlparse gives both a scheme and a netloc
is_valid_url(str) == str \in {"h://p", "h://f"}

\* query.lower().startswith(prefix)
StartsWith(str, prefix) ==
    CASE prefix = "web:"    -> str = "web:h://p"
      [] prefix = "browse:" -> str = "browse:what"
      [] prefix = "search:" -> str = "search:what"

\* query.split(":", 1)[1].strip()
AfterColon(str) ==
    CASE str = "web:h://p"   -> "h://p"
      [] str = "browse:what" -> "what"
      [] str = "search:what" -> "what"

\* the characters of a query that reaches search
Chars(str) ==
    CASE str = "what"      -> <<"w", "h", "a", "t">>
      [] str = "aha"       -> <<"a", "h", "a">>
      [] str = "h://p"     -> <<"h", ":", "/", "/", "p">>
      [] str = "web:h://p" -> <<"w", "e", "b", ":", "h", ":", "/", "/", "p">>
      [] str = "summary"   -> <<"s", "u", "m", "m", "a", "r", "y">>

\* the query the browsing loop substitutes for an empty first input
\* ("Summarize the main content of this page")
SummaryQuery == "summary"

\* WebBrowser.browse(url): None, or the page's text and title
PageText == <<"a", ".", NL, "b", "a", "a">>
browse(url) == IF url = "h://p"
               THEN [ok |-> TRUE, text |-> PageText, title |-> "P"]
               ELSE [ok |-> FALSE, text |-> <<>>, title |-> ""]

\* process_query's dispatch: which handler a query goes to, and with what
Route(query) ==
    IF is_valid_url(query) THEN [to |-> "web", arg |-> query]
    ELSE IF StartsWith(query, "web:") \/ StartsWith(query, "browse:")
         THEN IF is_valid_url(AfterColon(query))
              THEN [to |-> "web", arg |-> AfterColon(query)]
              ELSE [to |-> "websearch", arg |-> AfterColon(query)]
    ELSE IF StartsWith(query, "search:")
         THEN [to |-> "websearch", arg |-> AfterColon(query)]
    ELSE [to |-> "document", arg |-> query]

\* the browsing loop's dispatch of one line of input
BrowseRoute(web_query, is_first_query) ==
    IF Lower(web_query) \in {"back", "exit"} THEN [to |-> "leave", arg |-> web_query]
    ELSE IF web_query = ""
         THEN IF is_first_query THEN [to |-> "search", arg |-> SummaryQuery]
              ELSE [to |-> "hint", arg |-> web_query]
    ELSE [to |-> "search", arg |-> web_query]

\* ------------------------------------------- process_web_query, the pieces
\* "Save current index state"
SaveOriginals(dp) == [original_chunks |-> dp.chunks,
                      original_metadata |-> dp.metadata,
                      original_index |-> dp.index]

\* the metadata list built for the page's chunks
WebMetadata(url, title, n) ==
    [i \in 1..n |-> [source |-> url, title |-> title, chunk_id |-> i - 1]]

\* InstallIndex with the assignment left out: the document index stays active
InstallIndex_Skipped(dp, ix) == dp

\* the temporary index becomes the processor's index
InstallIndex(dp, ix) == [dp EXCEPT !.index = ix]

\* process_web_query from "Generate embeddings for web content" to
\* self.doc_processor.index = temp_index
EmbedWeb(dp, outcome, live) ==
    IF outcome = "raise" THEN [dp |-> dp, raised |-> TRUE]
    ELSE [dp |-> InstallIndex(dp, NewIndex(Encode(dp.chunks.items, outcome),
                                           live \cup DpIds(dp))),
          raised |-> FALSE]

\* the assignment of self.doc_processor.metadata
SetWebMetadata(dp, url, title, live) ==
    SetMetadata(dp, WebMetadata(url, title, Len(dp.chunks.items)), live)

\* from "Create chunks from web content" to self.doc_processor.index =
\* temp_index; raised: the encode call raised, after chunks and metadata
\* were replaced
InstallWeb(dp, url, web_data, outcome, live, cs, ov) ==
    EmbedWeb(SetWebMetadata(SetChunks(dp, chunk_text(web_data.text, cs, ov), live),
                            url, web_data.title, live),
             outcome, live)

\* Restore without its third assignment: the index is not put back
Restore_WithoutIndex(dp, f) == [dp EXCEPT !.chunks = f.original_chunks,
                                          !.metadata = f.original_metadata]

\* "Restore original index when exiting browsing mode"
Restore(dp, f) == [dp EXCEPT !.chunks = f.original_chunks,
                             !.metadata = f.original_metadata,
                             !.index = f.original_index]

\* ------------------------------------------------------------------ state
VARIABLES
    pc,             \* where the program is: "start" (before load_documents),
                    \* "loaded" (before the interface is chosen), "main" (the
                    \* command loop waits for input), "browse" (the browsing
                    \* loop waits for input), "done" (main returned),
                    \* "crashed" (an exception left the handler, or the
                    \* process was killed)
    doc_processor,  \* DocQAApp.doc_processor: chunks, metadata, index,
                    \* chunk_size, chunk_overlap
    mode,           \* DocQAApp.mode: "qa" or "notes"
    use_tts,        \* DocQAApp.use_tts
    voice_mode,     \* DocQAApp.voice_mode
    frames,         \* the active calls of process_web_query, innermost last:
                    \* its locals url, title, original_chunks,
                    \* original_metadata, original_index, is_first_query, and
                    \* entry, the processor as it was when the call began
    disk,           \* the index file, its companion file and the sidecar
    durable,        \* the processor as load_documents left it in this run
    last            \* what the last operation was and what it produced

vars == <<pc, doc_processor, mode, use_tts, voice_mode, frames, disk, durable, last>>

\* the three fields of the processor the claims are about
Fields(dp) == [chunks |-> dp.chunks, metadata |-> dp.metadata, index |-> dp.index]

\* identities held by the saved locals of the active browsing calls
FrameIds == UNION {{frames[i].original_chunks.id, frames[i].original_metadata.id,
                    frames[i].original_index.id} : i \in 1..Len(frames)}

\* DocQAApp.__init__ and initialize(): DocumentProcessor(model, CHUNK_SIZE,
\* CHUNK_OVERLAP)
NewProcessor == [chunks |-> InitDp.chunks, metadata |-> InitDp.metadata,
                 index |-> InitDp.index,
                 chunk_size |-> ChunkSize, chunk_overlap |-> ChunkOverlap]

Init ==
    /\ pc = "start"
    /\ doc_processor = NewProcessor
    /\ mode = "qa"
    /\ use_tts = TRUE
    /\ voice_mode = FALSE
    /\ frames = <<>>
    /\ disk = EmptyDisk
    /\ durable = Fields(NewProcessor)
    /\ last = [op |-> "init"]

\* ---------------------------------------------------------------- actions
\* main(): app.load_documents(selected_docs), and what main does with its
\* result
LoadDocuments(file_paths, outs, stop) ==
    /\ pc = "start"
    /\ LET r == load_documents(disk, doc_processor, file_paths, outs, stop,
                               doc_processor.chunk_size, doc_processor.chunk_overlap)
       IN /\ doc_processor' = r.dp
          /\ disk' = r.disk
          /\ durable' = Fields(r.dp)
          /\ pc' = CASE r.ret = "true"  -> "loaded"
                     [] r.ret = "false" -> "done"
                     [] OTHER           -> "crashed"
          /\ last' = [op |-> "load", files |-> file_paths, ret |-> r.ret,
                      path |-> r.path, calls |-> r.calls, before |-> disk]
    /\ UNCHANGED <<mode, use_tts, voice_mode, frames>>

\* main(): "Choose interface", then run_cli (choice "1", with pynput) or
\* run_interactive
RunInterface(voice) ==
    /\ pc = "loaded"
    /\ pc' = "main"
    /\ use_tts' = voice
    /\ voice_mode' = voice
    /\ last' = [op |-> "run"]
    /\ UNCHANGED <<doc_processor, mode, frames, disk, durable>>

\* CanDispatch for a listener that starts a query while another is being
\* processed
CanDispatch_Reentrant == pc \in {"main", "browse"}

\* the command loop (run_interactive's input(), the listener's on_release)
\* hands a query to process_query only between two queries: the loop, and
\* the listener thread, are blocked while a query is being processed
CanDispatch == pc = "main"

\* run_interactive: 'mode qa' / 'mode notes'
SetMode(new_mode) ==
    /\ CanDispatch
    /\ ~voice_mode
    /\ mode # new_mode
    /\ mode' = new_mode
    /\ last' = [op |-> "mode"]
    /\ UNCHANGED <<pc, doc_processor, use_tts, voice_mode, frames, disk, durable>>

\* run_interactive: 'quit' / 'exit'; run_cli: ESC
Quit ==
    /\ CanDispatch
    /\ pc' = "done"
    /\ last' = [op |-> "quit"]
    /\ UNCHANGED <<doc_processor, mode, use_tts, voice_mode, frames, disk, durable>>

\* process_query, document branch: search, then the no-information answer
\* or generate_response.  generate_response is called with the keyword
\* voice_mode, which LLMHandler.generate_response does not take: TypeError.
ProcessQuery(query, outcome) ==
    /\ CanDispatch
    /\ Route(query).to = "document"
    /\ outcome \in {"ok", "raise"}
    /\ LET searched == ~IsNone(doc_processor.index) /\ ntotal(doc_processor.index) > 0
           r == Search(doc_processor, Chars(Route(query).arg), TopK)
           enc == searched /\ outcome = "raise"
       IN /\ outcome = "raise" => searched
          /\ last' = [op |-> "doc_search", query |-> query,
                      raised |-> IF enc THEN "encode"
                                 ELSE IF r.raised THEN "IndexError"
                                 ELSE IF r.results # <<>> THEN "TypeError"
                                 ELSE "no",
                      results |-> IF enc THEN <<>> ELSE r.results]
          /\ pc' = IF enc \/ r.raised \/ r.results # <<>> THEN "crashed" ELSE pc
    /\ UNCHANGED <<doc_processor, mode, use_tts, voice_mode, frames, disk, durable>>

\* what the web gives perform_web_search: "none": search_web returns no
\* result or raises; "page": results, and the text of a result page of 50
\* characters or more; "snippets": results and no such text
WebSearchOutcomes == {"none", "page", "snippets"}

\* the "Save this note?" / "Note title" input() of perform_web_search:
\* answered (or EOFError, which is an Exception), or Ctrl+C
NotePrompts == {"ok", "interrupt"}

\* perform_web_search reaches its note prompt: in notes mode, with the
\* snippets as the response (with the text of a page, generate_response is
\* called with the keyword voice_mode: TypeError, caught as an Exception)
AsksToSave(found, m) == found = "snippets" /\ m = "notes"

\* process_query, "web:"/"browse:"/"search:" with a non-URL: perform_web_search
\* reads and writes nothing of the processor and catches every Exception;
\* KeyboardInterrupt at a note prompt is none: it leaves run_interactive and
\* main
PerformWebSearch(query, found, prompt) ==
    /\ CanDispatch
    /\ Route(query).to = "websearch"
    /\ prompt = "interrupt" => AsksToSave(found, mode)
    /\ last' = [op |-> "websearch", query |-> query, found |-> found,
                exit |-> IF prompt = "interrupt" THEN "KeyboardInterrupt" ELSE "ok"]
    /\ pc' = IF prompt = "interrupt" THEN "crashed" ELSE pc
    /\ UNCHANGED <<doc_processor, mode, use_tts, voice_mode, frames, disk, durable>>

\* FetchFailed for a code that chunks the page before it tests web_data: the
\* chunk list is replaced by an empty one
FetchFailed_ChunksCleared(dp, live) == SetChunks(dp, <<>>, live)

\* "if not web_data: ... return": nothing of the processor is assigned
FetchFailed(dp, live) == dp

\* StoreAfterInstall for a code that saves the index it has just installed
StoreAfterInstall_Saved(d, dp) == save_index(d, dp, FAISS_INDEX_PATH, "none")

\* process_web_query builds and installs the temporary index in memory: it
\* calls neither save_index nor save_index_metadata
StoreAfterInstall(d, dp) == d

\* the objects alive while process_web_query installs the page: those the
\* enclosing browsing calls saved, and those this call has just saved in
\* original_chunks, original_metadata and original_index
WebLive(dp) == FrameIds \cup DpIds(dp)

\* process_query with a URL: process_web_query up to its first input()
ProcessWebQuery(query, outcome) ==
    /\ CanDispatch
    /\ Route(query).to = "web"
    /\ LET url == Route(query).arg
           web_data == browse(url)
           f == SaveOriginals(doc_processor) @@
                [url |-> url, title |-> web_data.title, is_first_query |-> TRUE,
                 entry |-> Fields(doc_processor)]
           r == InstallWeb(doc_processor, url, web_data, outcome, WebLive(doc_processor),
                           doc_processor.chunk_size, doc_processor.chunk_overlap)
       IN IF ~web_data.ok
          THEN /\ outcome = "ok"
               /\ last' = [op |-> "web_none", url |-> url]
               /\ doc_processor' = FetchFailed(doc_processor, WebLive(doc_processor))
               /\ UNCHANGED <<pc, frames, disk>>
          ELSE /\ doc_processor' = r.dp
               /\ disk' = StoreAfterInstall(disk, r.dp)
               /\ IF r.raised
                  THEN /\ pc' = "crashed"
                       /\ frames' = frames
                       /\ last' = [op |-> "web_exit", how |-> "embed", url |-> url,
                                   entry |-> f.entry, asked |-> FALSE]
                  ELSE /\ pc' = "browse"
                       /\ frames' = Append(frames, f)
                       /\ last' = [op |-> "web_enter", url |-> url]
    /\ UNCHANGED <<mode, use_tts, voice_mode, durable>>

\* the frame left without its last element: the call has returned or raised
Pop(fs) == SubSeq(fs, 1, Len(fs) - 1)

\* what can go wrong after an answer was generated in notes mode: the
\* "Save this note?" input() raises, or save_note raises
AfterAnswer == {"ok", "input", "note"}

\* one turn of the browsing loop: input() returns web_query; outcome is what
\* the encode call of search does, after what follows the answer
BrowseInput(web_query, outcome, after) ==
    /\ pc = "browse"
    /\ outcome \in {"ok", "raise"}
    /\ LET f  == frames[Len(frames)]
           br == BrowseRoute(web_query, f.is_first_query)
           searched == ~IsNone(doc_processor.index) /\ ntotal(doc_processor.index) > 0
           r == Search(doc_processor, Chars(br.arg), TopK)
           enc == searched /\ outcome = "raise"
           answered == ~enc /\ ~r.raised /\ r.results # <<>>
           exit == IF enc THEN "encode"
                   ELSE IF r.raised THEN "IndexError"
                   ELSE IF answered /\ mode = "notes" THEN after
                   ELSE "ok"
       IN CASE br.to = "leave" ->
                 /\ outcome = "ok" /\ after = "ok"
                 /\ doc_processor' = Restore(doc_processor, f)
                 /\ frames' = Pop(frames)
                 /\ pc' = IF Len(frames) = 1 THEN "main" ELSE "browse"
                 /\ last' = [op |-> "web_exit", how |-> "back", url |-> f.url,
                             entry |-> f.entry, asked |-> ~f.is_first_query]
            [] br.to = "hint" ->
                 /\ outcome = "ok" /\ after = "ok"
                 /\ last' = [op |-> "web_hint", url |-> f.url]
                 /\ UNCHANGED <<pc, doc_processor, frames>>
            [] br.to = "search" ->
                 /\ outcome = "raise" => searched
                 /\ after # "ok" => answered /\ mode = "notes"
                 /\ last' = [op |-> "web_search", query |-> web_query, url |-> f.url,
                             entry |-> f.entry, exit |-> exit,
                             results |-> IF enc THEN <<>> ELSE r.results]
                 /\ IF exit = "ok"
                    THEN /\ frames' = [frames EXCEPT ![Len(frames)].is_first_query = FALSE]
                         /\ pc' = pc
                    ELSE /\ frames' = Pop(frames)
                         /\ pc' = "crashed"
                 /\ UNCHANGED doc_processor
    /\ UNCHANGED <<mode, use_tts, voice_mode, disk, durable>>

\* the browsing loop's input() raises (end of input, Ctrl+C)
BrowseInputError ==
    /\ pc = "browse"
    /\ LET f == frames[Len(frames)]
       IN last' = [op |-> "web_exit", how |-> "input", url |-> f.url,
                   entry |-> f.entry, asked |-> ~f.is_first_query]
    /\ frames' = Pop(frames)
    /\ pc' = "crashed"
    /\ UNCHANGED <<doc_processor, mode, use_tts, voice_mode, disk, durable>>

\* the program is started again: a new process over the same disk
Restart ==
    /\ pc \in {"done", "crashed"}
    /\ pc' = "start"
    /\ doc_processor' = NewProcessor
    /\ mode' = "qa"
    /\ use_tts' = TRUE
    /\ voice_mode' = FALSE
    /\ frames' = <<>>
    /\ durable' = Fields(NewProcessor)
    /\ last' = [op |-> "init"]
    /\ UNCHANGED disk

\* the steps of the program with an embedding provider whose encode calls
\* end in one of outcomes
NextWith(outcomes) ==
    \/ \E file_paths \in FileLists :
         \E outs \in [1..Len(file_paths) -> outcomes] :
           \E stop \in StopPoints : LoadDocuments(file_paths, outs, stop)
    \/ \E voice \in BOOLEAN : RunInterface(voice)
    \/ \E new_mode \in {"qa", "notes"} : SetMode(new_mode)
    \/ Quit
    \/ \E query \in MainInputs : \E outcome \in outcomes :
         ProcessQuery(query, outcome)
    \/ \E query \in MainInputs : \E found \in WebSearchOutcomes :
         \E prompt \in NotePrompts : PerformWebSearch(query, found, prompt)
    \/ \E query \in MainInputs : \E outcome \in outcomes :
         ProcessWebQuery(query, outcome)
    \/ \E web_query \in BrowseInputs : \E outcome \in outcomes :
         \E after \in AfterAnswer : BrowseInput(web_query, outcome, after)
    \/ BrowseInputError
    \/ Restart

\* the program with a provider that keeps its contract (one vector per
\* string) or raises
Next == NextWith(ProviderOutcomes)

Spec == Init /\ [][Next]_vars

\* the program with a provider that may also return too few vectors
NextFaulty == NextWith(FaultyProviderOutcomes)

SpecFaultyProvider == Init /\ [][NextFaulty]_vars

\* ------------------------------------------- the processor, call by call
\* The processors that calls of index_document produce from a new one: none,
\* one or several documents, with an embedding provider that answers,
\* raises or returns too few vectors.
StoreProcessors ==
    UNION {{IndexAll(NewProcessor, fs, outs, {}, ChunkSize, ChunkOverlap, <<>>).dp :
               outs \in [1..Len(fs) -> FaultyProviderOutcomes]} :
           fs \in FileLists \cup {<<>>}}

\* a DocQAApp in its command loop whose processor is one of these
InitStore ==
    /\ pc = "main"
    /\ doc_processor \in StoreProcessors
    /\ mode = "qa"
    /\ use_tts = FALSE
    /\ voice_mode = FALSE
    /\ frames = <<>>
    /\ disk = EmptyDisk
    /\ durable = Fields(doc_processor)
    /\ last = [op |-> "init"]

StoreQueries == {"what", "aha"}

\* doc_processor.search(query, top_k=3)
CallSearch(query, outcome) ==
    /\ pc = "main"
    /\ LET r == SearchCall(doc_processor, Chars(query), TopK, outcome)
       IN last' = [op |-> "search", query |-> query, outcome |-> outcome,
                   before |-> Fields(doc_processor), raised |-> r.raised,
                   encoded |-> r.encoded, results |-> r.results]
    /\ UNCHANGED <<pc, doc_processor, mode, use_tts, voice_mode, frames, disk, durable>>

\* paths handed to save_index and load_index: the configured one, one
\* without '.faiss' and one with '.faiss' inside
StorePaths == {FAISS_INDEX_PATH, "store.idx", "old.faiss.bak"}

\* doc_processor.save_index(index_path) in a directory that holds no file,
\* then load_index(index_path) on a new DocumentProcessor
CallSaveLoad(index_path) ==
    /\ pc = "main"
    /\ disk = EmptyDisk
    /\ disk' = save_index(disk, doc_processor, index_path, "none")
    /\ last' = [op |-> "roundtrip", index_path |-> index_path,
                metadata_path |-> metadata_path(index_path),
                saved |-> Fields(doc_processor),
                ret |-> load_index(disk', NewProcessor, {}).ret,
                loaded |-> Fields(load_index(disk', NewProcessor, {}).dp)]
    /\ UNCHANGED <<pc, doc_processor, mode, use_tts, voice_mode, frames, durable>>

NextStore ==
    \/ \E query \in StoreQueries : \E outcome \in ProviderOutcomes :
         CallSearch(query, outcome)
    \/ \E query \in MainInputs : \E outcome \in ProviderOutcomes :
         ProcessQuery(query, outcome)
    \/ \E index_path \in StorePaths : CallSaveLoad(index_path)

SpecStore == InitStore /\ [][NextStore]_vars

\* ------------------------------------------- the functions, call by call
\* arguments of get_file_hash: a path, or a list of paths in any order and
\* with repetitions
HashArgs ==
    {[is_str |-> TRUE, val |-> p] : p \in Listable} \cup
    {[is_str |-> FALSE, val |-> fs] : fs \in UNION {[1..n -> Listable] : n \in 0..MaxList}}

\* arguments of chunk_text: a text of letters, full stops, spaces, tabs and
\* newlines (texts of letters and white space, of letters and full stops,
\* of full stops and newlines, of letters and tabs), a chunk size and a
\* smaller positive overlap
ChunkAlphabets == {{"a", " ", NL}, {"a", "."}, {".", NL}, {"a", "\t"}}
ChunkTexts == UNION {UNION {[1..n -> A] : n \in 0..MaxText} : A \in ChunkAlphabets}
ChunkSizes == 2..MaxChunkSize

InitPure ==
    /\ pc = "call"
    /\ doc_processor = NewProcessor
    /\ mode = "qa"
    /\ use_tts = TRUE
    /\ voice_mode = FALSE
    /\ frames = <<>>
    /\ disk = EmptyDisk
    /\ durable = Fields(NewProcessor)
    /\ last = [op |-> "init"]

\* self.get_file_hash(arg)
CallGetFileHash(arg) ==
    /\ pc = "call"
    /\ pc' = "returned"
    /\ last' = [op |-> "hash", arg |-> arg, hash |-> get_file_hash(AsList(arg))]
    /\ UNCHANGED <<doc_processor, mode, use_tts, voice_mode, frames, disk, durable>>

\* chunk_text(text) on a processor made with chunk_size cs and
\* chunk_overlap ov; done is FALSE when the loop has not ended after
\* MaxIter iterations
CallChunkText(text, cs, ov) ==
    /\ pc = "call"
    /\ pc' = "returned"
    /\ last' = [op |-> "chunk", text |-> text, cs |-> cs, ov |-> ov,
                done |-> ChunkLoop(text, cs, ov, 0, <<>>, MaxIter).done,
                windows |-> ChunkLoop(text, cs, ov, 0, <<>>, MaxIter).windows,
                chunks |-> chunk_text(text, cs, ov)]
    /\ UNCHANGED <<doc_processor, mode, use_tts, voice_mode, frames, disk, durable>>

\* the calls, each made once on a new application object
GetFileHashCalls ==
    pc = "call" /\ \E arg \in HashArgs : CallGetFileHash(arg)

ChunkTextCalls ==
    pc = "call" /\ \E text \in ChunkTexts : \E cs \in ChunkSizes : \E ov \in 1..(cs - 1) :
                      CallChunkText(text, cs, ov)

NextPure ==
    \/ GetFileHashCalls
    \/ ChunkTextCalls

SpecPure == InitPure /\ [][NextPure]_vars

\* ----------------------------------------------------------------- claims
\* the last operation left process_web_query after the saved state was taken
WebLeft == \/ last.op = "web_exit"
           \/ last.op = "web_search" /\ last.exit # "ok"

\* the last operation was a search
Searched == last.op \in {"doc_search", "web_search"}

\* C1: every way of leaving process_web_query after the originals were saved
\* (back/exit, or an exception of the embedding call, a search, input() or
\* note saving) ends with chunks, metadata and index being the objects
\* saved on entry.
C1_RestoredOnEveryExit == WebLeft => Fields(doc_processor) = last.entry

\* C2: a browsing sub-session ended with 'back' or 'exit' leaves chunks,
\* metadata and index the same objects with the same contents as before it
\* began; while it is open the saved locals are the objects of before.
C2_BackRestores ==
    /\ (last.op = "web_exit" /\ last.how = "back")
           => Fields(doc_processor) = last.entry
    /\ \A i \in 1..Len(frames) :
           /\ frames[i].original_chunks = frames[i].entry.chunks
           /\ frames[i].original_metadata = frames[i].entry.metadata
           /\ frames[i].original_index = frames[i].entry.index

C2_Witness ==
    /\ last.op = "web_exit" /\ last.how = "back" /\ last.asked
    /\ pc = "main"
    /\ ntotal(doc_processor.index) > 1

\* C3: whenever the browsing loop can search, chunks, metadata and index
\* are all three new objects made from the fetched page, and every result
\* of a search of the sub-session is a chunk of the page with the browsed
\* URL as its metadata source, never a chunk of the document index.
PageChunks(url) == chunk_text(browse(url).text, doc_processor.chunk_size,
                              doc_processor.chunk_overlap)

InSeq(x, seq) == \E i \in 1..Len(seq) : seq[i] = x

C3_SearchOnWebOnly ==
    /\ pc = "browse" =>
         LET f == frames[Len(frames)]
             dp == doc_processor
         IN /\ dp.chunks.id # f.entry.chunks.id
            /\ dp.metadata.id # f.entry.metadata.id
            /\ dp.index.id # f.entry.index.id
            /\ dp.chunks.items = PageChunks(f.url)
            /\ Len(dp.metadata.items) = Len(dp.chunks.items)
            /\ \A i \in 1..Len(dp.metadata.items) : dp.metadata.items[i].source = f.url
            /\ ntotal(dp.index) <= Len(dp.chunks.items)
            /\ \A i \in 1..ntotal(dp.index) : dp.index.vecs[i] = EmbedOne(dp.chunks.items[i])
    /\ last.op = "web_search" =>
         \A i \in 1..Len(last.results) :
            /\ last.results[i].meta.source = last.url
            /\ InSeq(last.results[i].chunk, PageChunks(last.url))
            /\ ~InSeq(last.results[i].chunk, last.entry.chunks.items)

C3_Witness ==
    /\ last.op = "web_search" /\ last.results # <<>>
    /\ pc = "browse"
    /\ ntotal(last.entry.index) > 1
    /\ Len(last.entry.chunks.items) > 1

\* C4: at most one override is active; while one is, the saved snapshot is
\* the document index load_documents installed; a URL or a 'web:' line typed
\* inside the sub-session is searched in the current page.
C4_SingleOverride ==
    /\ Len(frames) <= 1
    /\ (pc = "browse") = (Len(frames) = 1)
    /\ \A i \in 1..Len(frames) :
           [chunks |-> frames[i].original_chunks,
            metadata |-> frames[i].original_metadata,
            index |-> frames[i].original_index] = durable
    /\ (last.op = "web_search" /\ Route(last.query).to = "web" /\ last.exit = "ok")
           => Len(frames) = 1 /\ frames[1].url = last.url

C4_Witness ==
    /\ last.op = "web_search" /\ Route(last.query).to = "web" /\ last.exit = "ok"
    /\ last.results # <<>>
    /\ pc = "browse"

\* what the three fields hold, identities aside
Contents(dp) == [chunks |-> dp.chunks.items, metadata |-> dp.metadata.items,
                 none |-> IsNone(dp.index), vecs |-> dp.index.vecs]

\* the last operation was load_documents and it went through the indexing
\* loop
Ingested == last.op = "load" /\ last.path = "ingest"

\* C5: after load_documents has run index_document over a list of documents
\* (some of which may fail to load, chunk to nothing, or raise in the
\* embedding call) len(chunks) = len(metadata) = index.ntotal whenever the
\* index is not None.
C5_LengthsAgreeAfterIngest ==
    (Ingested /\ ~IsNone(doc_processor.index))
        => /\ Len(doc_processor.chunks.items) = Len(doc_processor.metadata.items)
           /\ Len(doc_processor.chunks.items) = ntotal(doc_processor.index)

\* chunk_text(d1) ++ ... ++ chunk_text(dn)
RECURSIVE ConcatChunks(_)
ConcatChunks(files) ==
    IF files = <<>> THEN <<>>
    ELSE chunk_text(load_document(Head(files)), doc_processor.chunk_size,
                    doc_processor.chunk_overlap) \o ConcatChunks(Tail(files))

\* C6: after load_documents ingests n >= 2 documents that all load and chunk
\* successfully, chunks is the concatenation of the documents' chunks in
\* the given order and index.ntotal is the total number of chunks.
C6_ConcatenatesDocuments ==
    (/\ Ingested /\ last.ret = "true" /\ Len(last.files) >= 2
     /\ \A i \in 1..Len(last.calls) :
            last.calls[i].stage = "done" /\ last.calls[i].outcome = "ok")
        => /\ doc_processor.chunks.items = ConcatChunks(last.files)
           /\ ntotal(doc_processor.index) = Len(ConcatChunks(last.files))

\* C7: a call of index_document that fails (document not loaded, no chunk,
\* embedding call raised) leaves chunks, metadata and index as they were
\* before the call.
C7_FailedCallChangesNothing ==
    Ingested =>
        \A i \in 1..Len(last.calls) :
            last.calls[i].stage # "done"
                => Contents(last.calls[i].post) = Contents(last.calls[i].pre)

\* C8: if the embedding provider returns a number of vectors different from
\* the number of chunks (zero included), load_documents reports failure,
\* nothing is written to the disk, and the index built from those vectors
\* is not the active index.
C8_MismatchAborts ==
    Ingested =>
        \A i \in 1..Len(last.calls) :
            (last.calls[i].stage = "done" /\ last.calls[i].outcome = "short")
                => /\ last.ret = "false"
                   /\ disk = last.before
                   /\ doc_processor.index # last.calls[i].post.index

\* C9: search returns at most min(top_k, index.ntotal) results, each for a
\* distinct handle h with 0 <= h < index.ntotal.
C9_AtMostMinResults ==
    Searched =>
        /\ Len(last.results) <= Min2(TopK, ntotal(doc_processor.index))
        /\ \A i \in 1..Len(last.results) :
               /\ 0 <= last.results[i].h
               /\ last.results[i].h < ntotal(doc_processor.index)
               /\ \A j \in 1..Len(last.results) :
                      last.results[i].h = last.results[j].h => i = j

\* C10: search drops every handle that is no valid position of chunks or of
\* metadata and never raises an index error.
C10_NoIndexError ==
    /\ last.op = "doc_search" => last.raised # "IndexError"
    /\ last.op = "web_search" => last.exit # "IndexError"

\* the last operation was load_documents and it took the reuse branch: the
\* index file exists, the sidecar matches, load_index was called
Reused == last.op = "load" /\ last.path = "reuse"

\* C13: when load_documents reuses a persisted store, or the store cannot be
\* loaded although the sidecar matches (companion file missing or cut
\* short), it ends with a loaded store or falls through to ingestion; it
\* does not end with an unhandled error.
C13_ReuseLoadsOrReingests == Reused => last.ret = "true" /\ pc # "crashed"

\* C14: needs_reindex(file_paths) is true when the sidecar is absent or does
\* not parse or was written for other documents (a sidecar for {A.txt}
\* asked about {A.txt, B.txt}), false only when it was written for the same
\* documents; load_documents ingests whenever it is true.
C14_StaleUnlessSameFingerprint ==
    last.op = "load" =>
        /\ needs_reindex(last.before, last.files)
              = (\/ ~last.before.sidecar.exists
                 \/ ~last.before.sidecar.parses
                 \/ Sorted(last.before.sidecar.files) # Sorted(last.files))
        /\ needs_reindex(last.before, last.files) => last.path = "ingest"

C14_Witness ==
    /\ last.op = "load" /\ last.path = "ingest"
    /\ last.before.faiss.exists /\ last.before.sidecar.parses
    /\ last.before.sidecar.files = <<"A.txt">>
    /\ last.files = <<"A.txt", "B.txt">>

\* what one ingestion that runs to its end leaves on an empty disk
WholeStores ==
    UNION {{Ingest(EmptyDisk, InitDp, fs, outs, "none", ChunkSize, ChunkOverlap).disk :
               outs \in [1..Len(fs) -> ProviderOutcomes]} : fs \in FileLists}

\* the index file and the companion file of d were written by one ingestion
SameIngestion(d) ==
    \E w \in WholeStores : w.faiss = d.faiss /\ w.pkl = d.pkl

\* C17: at every point, a kill between the two writes of save_index
\* included, the index file and the chunk/metadata file on disk come from
\* the same ingestion, and no start-up loads files of two ingestions
\* together.
C17_FilesOfOneIngestion ==
    /\ (disk.faiss.exists /\ disk.faiss.readable /\ disk.pkl.exists /\ disk.pkl.readable)
           => SameIngestion(disk)
    /\ (Reused /\ last.ret = "true") => SameIngestion(last.before)

\* C18: load_index checks len(chunks) = len(metadata) = index.ntotal on what
\* it has read and does not return True, with the data installed, when the
\* lengths disagree.
C18_LoadValidatesLengths ==
    (Reused /\ last.ret = "true")
        => /\ Len(doc_processor.chunks.items) = Len(doc_processor.metadata.items)
           /\ Len(doc_processor.chunks.items) = ntotal(doc_processor.index)

\* C12: the list search returns is in non-decreasing order of distance: the
\* join keeps the order in which the index returned its handles, also when
\* handles are dropped.
C12_NonDecreasingDistance ==
    Searched =>
        \A i \in 1..(Len(last.results) - 1) :
            last.results[i].dist <= last.results[i + 1].dist

C12_Witness ==
    /\ Searched
    /\ Len(last.results) >= 2
    /\ last.results[1].dist < last.results[2].dist
    /\ last.results[1].h # 0

\* C11: search on a processor whose index is None or holds no vector
\* returns the empty list without raising, without calling the embedding
\* provider and without changing chunks, metadata or index; process_query
\* then gives its no-information answer and the command loop goes on.
C11_EmptyIndexSearch ==
    /\ (last.op = "search" /\ (IsNone(last.before.index) \/ ntotal(last.before.index) = 0))
          => /\ last.raised = "no"
             /\ ~last.encoded
             /\ last.results = <<>>
             /\ Fields(doc_processor) = last.before
    /\ (last.op = "doc_search" /\ (IsNone(doc_processor.index) \/ ntotal(doc_processor.index) = 0))
          => /\ last.raised = "no"
             /\ last.results = <<>>
             /\ pc = "main"
             /\ Fields(doc_processor) = durable

C11_Witness ==
    /\ last.op = "search" /\ last.outcome = "raise"
    /\ ~IsNone(last.before.index) /\ ntotal(last.before.index) = 0
    /\ last.before.chunks.items # <<>>

\* C19: for a processor with an index and for every path, save_index
\* followed by load_index on a new processor returns True and gives the same
\* chunks, the same metadata and the same vectors in the same order, hence
\* the same search results for every query.
C19_SaveLoadRoundTrip ==
    (last.op = "roundtrip" /\ ~IsNone(last.saved.index))
        => /\ last.ret = "true"
           /\ Contents(last.loaded) = Contents(last.saved)
           /\ \A q \in StoreQueries :
                  Search(last.loaded, Chars(q), TopK) = Search(last.saved, Chars(q), TopK)

\* how often p occurs in the list fs
Occurrences(p, fs) == Cardinality({i \in 1..Len(fs) : fs[i] = p})

\* C15: get_file_hash gives the same fingerprint for a list and for every
\* reordering of it, and for a single string the fingerprint of the
\* one-element list holding it.
C15_HashOrderIndependent ==
    last.op = "hash" =>
        \A other \in HashArgs :
            (\A p \in Listable :
                 Occurrences(p, AsList(other)) = Occurrences(p, AsList(last.arg)))
                => get_file_hash(AsList(other)) = last.hash

C15_Witness ==
    /\ last.op = "hash"
    /\ last.arg = [is_str |-> FALSE, val |-> <<"W.txt", "A.txt", "B.txt">>]
    /\ last.hash = Md5("A.txt|B.txt|W.txt")

\* C16: get_file_hash gives the same fingerprint for two lists that hold the
\* same set of identifiers, whatever the multiplicities ([A] and [A, A]).
C16_HashIgnoresDuplicates ==
    last.op = "hash" =>
        \A other \in HashArgs :
            ({AsList(other)[i] : i \in 1..Len(AsList(other))}
                 = {AsList(last.arg)[i] : i \in 1..Len(AsList(last.arg))})
                => get_file_hash(AsList(other)) = last.hash

\* C20: for every text and every chunk_size > chunk_overlap > 0 chunk_text
\* terminates: the window start grows at every iteration, so the loop ends
\* within len(text) iterations.
C20_ChunkTextTerminates == last.op = "chunk" => last.done

\* C21: a text shorter than chunk_size that holds a non-whitespace character
\* gives exactly one chunk, the text without its leading and trailing
\* whitespace, for every chunk_overlap < chunk_size.
C21_ShortTextOneChunk ==
    (last.op = "chunk" /\ Len(last.text) < last.cs /\ Strip(last.text) # <<>>)
        => last.chunks = <<Strip(last.text)>>

\* position p of the text (counted from 1) lies in a window whose chunk is
\* returned
InReturnedWindow(p, ws) ==
    \E i \in 1..Len(ws) : ws[i].chunk # <<>> /\ ws[i].start < p /\ p <= ws[i].end

\* the returned chunks are in strictly increasing order of start offset
StartsIncrease(ws) ==
    \A i, j \in 1..Len(ws) :
        (i < j /\ ws[i].chunk # <<>> /\ ws[j].chunk # <<>>) => ws[i].start < ws[j].start

\* C22: for every text and chunk_overlap < chunk_size chunk_text returns
\* chunks whose spans hold every non-whitespace position of the text, in
\* strictly increasing order of their start offset.
C22_CoversInOrder ==
    last.op = "chunk" =>
        /\ last.done
        /\ \A p \in 1..Len(last.text) :
               ~IsSpace(last.text[p]) => InReturnedWindow(p, last.windows)
        /\ StartsIncrease(last.windows)

\* C23: chunk_text returns no empty or whitespace-only chunk, every chunk it
\* returns is without leading and trailing whitespace, and for the empty
\* text and for whitespace-only text it returns the empty list.
C23_ChunksTrimmedNonEmpty ==
    last.op = "chunk" =>
        /\ \A i \in 1..Len(last.chunks) :
               /\ last.chunks[i] # <<>>
               /\ Strip(last.chunks[i]) = last.chunks[i]
        /\ Strip(last.text) = <<>> => last.done /\ last.chunks = <<>>

\* offsets inside the window [s, s + cs) at which the text has '.' or a
\* newline
BreakOffsets(text, s, cs) ==
    {k \in 0..(cs - 1) : s + k + 1 <= Len(text) /\ text[s + k + 1] \in {".", NL}}

LastBreak(text, s, cs) ==
    IF BreakOffsets(text, s, cs) = {} THEN -1 ELSE SetMax(BreakOffsets(text, s, cs))

\* C25: a window that does not reach the end of the text ends just after
\* its last '.' or newline exactly when that character's offset in the
\* window is greater than chunk_size / 2, and keeps chunk_size characters
\* otherwise; a window that reaches the end is not truncated; every next
\* window starts chunk_overlap characters before the end of the previous.
C25_WindowRule ==
    last.op = "chunk" =>
        \A i \in 1..Len(last.windows) :
            /\ last.windows[i].end =
                  IF /\ last.windows[i].start + last.cs < Len(last.text)
                     /\ 2 * LastBreak(last.text, last.windows[i].start, last.cs) > last.cs
                  THEN last.windows[i].start
                         + LastBreak(last.text, last.windows[i].start, last.cs) + 1
                  ELSE last.windows[i].start + last.cs
            /\ last.windows[i].chunk =
                  Strip(SubSeq(last.text, last.windows[i].start + 1,
                               Min2(last.windows[i].end, Len(last.text))))
            /\ last.windows[i].start =
                  IF i = 1 THEN 0 ELSE last.windows[i - 1].end - last.ov

C25_Witness ==
    /\ last.op = "chunk" /\ last.done
    /\ Len(last.windows) >= 3
    /\ last.windows[1].end = last.windows[1].start + last.cs - 1
    /\ last.windows[2].end = last.windows[2].start + last.cs
    /\ LastBreak(last.text, last.windows[2].start, last.cs) >= 0

\* metadata mds numbers the chunks cks from 0 without a gap and names src
\* as the source of each
WellNumbered(mds, cks, src) ==
    /\ Len(mds) = Len(cks)
    /\ \A i \in 1..Len(mds) : mds[i].chunk_id = i - 1 /\ mds[i].source = src

\* C24: after every index_document that builds an index, and after every
\* installation of web content, metadata has one record per chunk,
\* metadata[i] has chunk_id i and the file path, respectively the URL, as
\* its source.
C24_MetadataNumbersChunks ==
    /\ Ingested =>
          \A i \in 1..Len(last.calls) :
              last.calls[i].stage = "done"
                  => WellNumbered(last.calls[i].post.metadata.items,
                                  last.calls[i].post.chunks.items, last.calls[i].file)
    /\ pc = "browse" =>
          WellNumbered(doc_processor.metadata.items, doc_processor.chunks.items,
                       frames[Len(frames)].url)
    /\ (last.op = "web_exit" /\ last.how = "embed") =>
          WellNumbered(doc_processor.metadata.items, doc_processor.chunks.items, last.url)

C24_Witness ==
    /\ last.op = "web_enter" /\ pc = "browse"
    /\ Len(doc_processor.chunks.items) >= 2
    /\ Len(durable.metadata.items) = 3
    /\ durable.metadata.items[3].chunk_id = 2

\* C26: an index that load_documents reuses is the index that ingesting the
\* requested files builds, also after a run for other files was interrupted
\* between save_index and save_index_metadata.
C26_ReusedIndexIsForRequestedFiles ==
    (Reused /\ last.ret = "true") =>
        \E outs \in [1..Len(last.files) -> ProviderOutcomes] :
            /\ Ingest(EmptyDisk, InitDp, last.files, outs, "none",
                      ChunkSize, ChunkOverlap).ret = "true"
            /\ Ingest(EmptyDisk, InitDp, last.files, outs, "none",
                      ChunkSize, ChunkOverlap).disk.faiss = last.before.faiss
            /\ Ingest(EmptyDisk, InitDp, last.files, outs, "none",
                      ChunkSize, ChunkOverlap).disk.pkl = last.before.pkl

\* C27: after load_documents has ingested and returned True, the files
\* named in the sidecar are the sources of the persisted metadata.
C27_SidecarNamesIndexedFiles ==
    (Ingested /\ last.ret = "true") =>
        {disk.sidecar.files[i] : i \in 1..Len(disk.sidecar.files)}
            = {disk.pkl.metadata[i].source : i \in 1..Len(disk.pkl.metadata)}

\* no record of the companion file names a web page as its source
DiskHoldsNoPage ==
    \A i \in 1..Len(disk.pkl.metadata) : ~is_valid_url(disk.pkl.metadata[i].source)

\* C28: while the command loops run, an override active or not, no file of
\* the store is written, and the files never hold content of a web page.
C28_StoreWrittenBeforeLoops ==
    /\ []DiskHoldsNoPage
    /\ [][(pc \in {"main", "browse"}) => (disk' = disk)]_vars

C28_Witness ==
    /\ last.op = "web_search" /\ last.results # <<>>
    /\ pc = "browse"
    /\ disk.pkl.exists /\ disk.sidecar.exists

\* C29: a load_index that does not return True (the companion file cannot
\* be opened or parsed after the index file was read) leaves index, chunks
\* and metadata as they were before the call.
C29_LoadAllOrNothing ==
    (Reused /\ last.ret # "true") => Fields(doc_processor) = Fields(NewProcessor)

\* C30: a URL query whose page cannot be fetched, a web search and a plain
\* document query leave chunks, metadata and index as load_documents left
\* them; entering a browsing sub-session replaces all three.
C30_OtherQueriesKeepIndex ==
    /\ last.op \in {"doc_search", "websearch", "web_none"}
          => Fields(doc_processor) = durable
    /\ last.op = "web_enter"
          => /\ doc_processor.chunks.id # durable.chunks.id
             /\ doc_processor.metadata.id # durable.metadata.id
             /\ doc_processor.index.id # durable.index.id

C30_Witness ==
    /\ last.op = "web_none" /\ pc = "main"
    /\ ntotal(doc_processor.index) >= 2

====
